---------------------------- MODULE Spec2Model ----------------------------
(***************************************************************************)
(* A model of hermes/hermes.py: the event dispatcher (Hermes._dispatch),   *)
(* the control-socket listener thread (Listener), the supervisor loop of   *)
(* run_hermes with the teardown path Hermes.disconnect, the requests made  *)
(* of a running session (Hermes.restart from a handler, SIGTERM), the      *)
(* health poller (PollApi), the persistence flusher (SaveData) and the     *)
(* start-up of run_hermes (arguments, pid file).                           *)
(***************************************************************************)
EXTENDS Naturals, Integers, Sequences, FiniteSets, TLC

VARIABLES
    \* ---- dispatcher (Hermes._dispatch) ----
    dpc,        \* "idle" | "ready" (an event is about to be dispatched) | "done"
    event,      \* the inbound event: [type, nick, host, msg]
    failing,    \* the handlers (<<module, function>>) whose body raises when called
    calls,      \* log of handler invocations, in order
    attempted,  \* log of the handlers _execute_function was entered for
    replies,    \* log of connection.privmsg calls made by _dispatch
    escaped,    \* TRUE when an exception left _dispatch
    \* ---- supervisor (run_hermes) and the bot objects ----
    supPc,      \* where the main thread is: "loop" | "session" | "disc_stop" |
                \* "disc_wake" | "disc_sess" | "restart" | "stopped" | "fatal" | "escaped"
                \* | "off" (run_hermes has not reached its loop)
    run_eternal,\* the loop flag of run_hermes
    now,        \* time.time(), in seconds
    last_run,   \* last_run of run_hermes
    hermes,     \* the bot object the variable hermes names (bots are numbered)
    inHandler,  \* the running session was started inside the except RestartException block
    branch,     \* who called Hermes.disconnect: "restart" | "handler" | "signal" |
                \* "term" | "fatal" | "reboot" | "none"
    connected,  \* per bot: its connection to the chat network is up
    welcomed,   \* the running session has processed on_welcome
    quits,      \* log of the session disconnects: [bot, msg]
    starts,     \* number of hermes.start() calls so far
    sessStart,  \* time of the last hermes.start() call
    lastExc,    \* the last exception a running session raised: [kind, el, start, inHandler]
    \* ---- requests made of the running session ----
    sigterm,    \* SIGTERM deliveries: [n, start], start the session the first one met
    hrestart,   \* Hermes.restart calls made by handlers: [n, bot], bot the first caller's
    \* ---- health poller (PollApi) and the window of the bot it was given ----
    ppc,        \* the poller thread: "off" | "tick" | "sleep" | "dead"
    api_poll_threshold, \* config.polling.threshold
    api_poll_results,   \* the window: True marks a probe that failed
    api_poll_messaged,  \* the alerted flag
    alerts,     \* log of the notification rounds: [admins, window]
    tick,       \* what the last tick found and did: [found, result, messaged, sent]
    \* ---- persistence flusher (SaveData) ----
    fpc,        \* the flusher thread: "off" | "run" | "dead"
    cycle,      \* cycle of SaveData.run
    alive,      \* self.alive
    saves,      \* number of storage.save() calls
    ftick,      \* what the last pass of the loop found and did: [found, saved]
    \* ---- start-up of run_hermes ----
    cpc,        \* "args" (run_hermes entered) | "exit" (SystemExit raised) | "up"
    args,       \* _parse_args(): [stop, kill, no_eternal, nofork, verbose]
    root,       \* os.getuid() == 0 or os.geteuid() == 0
    found,      \* the pid file at start-up: "absent" | "garbage" | "dead" | "running"
    pidfile,    \* the pid file now: "none" | "old" | "own"
    exit,       \* the SystemExit raised: [status, msg]
    killed,     \* the signal sent to the old instance: "none" | "SIGTERM" | "SIGKILL"
    daemon,     \* the process that goes on is the child of os.fork()
    \* ---- control-socket listener (Listener), one per bot ----
    socketCfg,  \* 'socket' in config: the bots have a listener
    lpc,        \* per listener thread: "new" | "bind" | "loop" | "accept" | "handle" | "dead"
    lrunning,   \* per listener: self.running
    lattached,  \* per listener: self.connection is the connection of its bot (else None)
    lraw,       \* per listener: the payload recv returned last
    ldata,      \* per listener: data, the decoded and stripped payload
    listening,  \* the bot whose listener socket is bound to host:port, 0 when none is
    backlog,    \* connections made to host:port and not yet accepted: their payloads
    sent,       \* number of payloads clients have sent
    forwards    \* log of connection.send_raw calls of the listeners: [bot, data, live]

dvars == <<dpc, event, failing, calls, attempted, replies, escaped>>

svars == <<supPc, run_eternal, now, last_run, hermes, inHandler, branch, connected,
           welcomed, quits, starts, sessStart, lastExc>>

lvars == <<socketCfg, lpc, lrunning, lattached, lraw, ldata, listening, backlog,
           sent, forwards>>

avars == <<sigterm, hrestart>>

pvars == <<ppc, api_poll_threshold, api_poll_results, api_poll_messaged, alerts, tick>>

\* The bot, its listener and its supervisor.
bvars == <<dvars, svars, lvars, avars>>

fvars == <<fpc, cycle, alive, saves, ftick>>

cvars == <<cpc, args, root, found, pidfile, exit, killed, daemon>>

\* The other threads of the process, and its start-up.
tvars == <<pvars, fvars, cvars>>

vars == <<bvars, tvars>>

\* event.source.host is None: a host with no text at all.
NoHost == <<>>

(***************************************************************************)
(* Strings.  A message is the sequence of its whitespace-separated tokens  *)
(* (str.split()).  str.lower() is given on the tokens of the vocabulary.   *)
(***************************************************************************)
Lower(tok) ==
    CASE tok = ".HELP" -> ".help"
      [] tok = "Help"  -> "help"
      [] tok = "!Op"   -> "!op"
      [] OTHER         -> tok

\* re.search(rule, event.msg) for a literal rule: the rule occurs in the text.
\* The text is kept as tokens; the table gives the tokens a literal occurs in.
Occurs(rule, tok) ==
    CASE rule = "hi"   -> tok \in {"hi"}
      [] rule = "help" -> tok \in {"help", ".help", "!help"}
      [] OTHER         -> rule = tok

ReSearch(rule, msg) == \E i \in 1..Len(msg) : Occurs(rule, msg[i])

(***************************************************************************)
(* Configuration read by check_admin.  A host is None or the sequence of   *)
(* its comma-separated parts (host.split(",")).                            *)
(***************************************************************************)
Admins == {"alice"}

EndsWithTld(part) == part \in {"bob.site.tld", "x.site.tld"}

Hosts ==
    { NoHost,
      <<"bob.site.tld">>,
      <<"evil.example.com">>,
      <<"alice", "x.site.tld">> }

\* str.endswith on the whole host: decided by the text after the last comma.
HostEndsWithTld(host) == EndsWithTld(host[Len(host)])

check_admin(ev) ==
    /\ ev.nick \in Admins
    /\ ev.host # NoHost
    /\ HostEndsWithTld(ev.host)
    /\ ev.host[1] \notin Admins

(***************************************************************************)
(* The capability registry: modules in insertion order, each with its      *)
(* handlers (mod.__callables__) in order.                                  *)
(***************************************************************************)
Handler(n, c, r, e, d, a) ==
    [name |-> n, commands |-> c, rules |-> r, events |-> e,
     disabled |-> d, admin_only |-> a]

BothTypes == {"pubmsg", "privmsg"}

Modules ==
    << [name |-> "core",
        callables |->
          << Handler("help", <<"help">>, <<>>, BothTypes, FALSE, FALSE),
             Handler("op", <<"op">>, <<"hi">>, BothTypes, FALSE, TRUE),
             Handler("off", <<"help">>, <<"hi">>, BothTypes, TRUE, FALSE) >>],
       [name |-> "extra",
        callables |->
          << Handler("greet", <<>>, <<"hi">>, {"pubmsg"}, FALSE, FALSE),
             Handler("multi", <<"help", "op">>, <<"help">>, {"privmsg"}, FALSE, FALSE),
             Handler("adm", <<"op">>, <<"hi">>, BothTypes, FALSE, TRUE) >>] >>

HandlerIds ==
    { <<Modules[m].name, Modules[m].callables[f].name>> :
        m \in 1..Len(Modules), f \in 1..3 }


\* The handlers in the order _dispatch visits them (modules.items(), then
\* mod.__callables__), each with the name of its module.
RECURSIVE CallablesFrom(_, _)
CallablesFrom(m, f) ==
    IF m > Len(Modules) THEN <<>>
    ELSE IF f > Len(Modules[m].callables) THEN CallablesFrom(m + 1, 1)
    ELSE <<[id |-> <<Modules[m].name, Modules[m].callables[f].name>>,
            func |-> Modules[m].callables[f]]>> \o CallablesFrom(m, f + 1)

Callables == CallablesFrom(1, 1)

(***************************************************************************)
(* Events.  Only pubmsg and privmsg events are routed to _dispatch.        *)
(***************************************************************************)
MaxArgs == 1

FirstTokens == {".help", "!help", "help", ".HELP", "Help", ".op", "!Op", "op", "hi"}
ArgTokens == {"hi", "x"}

RECURSIVE SeqsUpTo(_, _)
SeqsUpTo(S, n) ==
    IF n = 0 THEN {<<>>}
    ELSE LET shorter == SeqsUpTo(S, n - 1)
         IN shorter \cup {Append(q, x) : q \in shorter, x \in S}

Messages ==
    {<<>>} \cup {<<t>> \o rest : t \in FirstTokens, rest \in SeqsUpTo(ArgTokens, MaxArgs)}

Events ==
    [type : BothTypes, nick : {"alice", "bob"}, host : Hosts, msg : Messages]

(***************************************************************************)
(* Hermes._execute_function                                                *)
(***************************************************************************)
CommandHitsBareAnywhere(ev, cmd, command) ==
    \/ cmd = "." \o command
    \/ cmd = "!" \o command
    \/ cmd = command

CommandHits(ev, cmd, command) ==
    \/ cmd = "." \o command
    \/ cmd = "!" \o command
    \/ (ev.type = "privmsg" /\ cmd = command)

\* for command in func.commands: ... func(self, connection, event)
\* A call that raises ends the loop: the exception leaves _execute_function.
RECURSIVE RunCommands(_, _, _, _, _, _)
RunCommands(id, func, ev, cmd, fails, k) ==
    IF k > Len(func.commands) THEN [calls |-> <<>>, raised |-> FALSE]
    ELSE IF ~CommandHits(ev, cmd, func.commands[k])
         THEN RunCommands(id, func, ev, cmd, fails, k + 1)
    ELSE LET call == [handler |-> id, via |-> "command", key |-> func.commands[k]]
         IN IF id \in fails
            THEN [calls |-> <<call>>, raised |-> TRUE]
            ELSE LET rest == RunCommands(id, func, ev, cmd, fails, k + 1)
                 IN [calls |-> <<call>> \o rest.calls, raised |-> rest.raised]

\* for rule in func.rules: match = re.search(rule, event.msg); if match: func(...)
RECURSIVE RunRules(_, _, _, _, _)
RunRules(id, func, ev, fails, k) ==
    IF k > Len(func.rules) THEN [calls |-> <<>>, raised |-> FALSE]
    ELSE IF ~ReSearch(func.rules[k], ev.msg)
         THEN RunRules(id, func, ev, fails, k + 1)
    ELSE LET call == [handler |-> id, via |-> "rule", key |-> func.rules[k]]
         IN IF id \in fails
            THEN [calls |-> <<call>>, raised |-> TRUE]
            ELSE LET rest == RunRules(id, func, ev, fails, k + 1)
                 IN [calls |-> <<call>> \o rest.calls, raised |-> rest.raised]

execute_function(id, func, ev, cmd, fails) ==
    LET c == RunCommands(id, func, ev, cmd, fails, 1)
    IN IF c.raised THEN c
       ELSE LET r == RunRules(id, func, ev, fails, 1)
            IN [calls |-> c.calls \o r.calls, raised |-> r.raised]

(***************************************************************************)
(* Hermes._dispatch                                                        *)
(***************************************************************************)
\* if func.disabled is True: continue
\* elif func.admin_only is True and not self.check_admin(event): continue
SkippedNoAdminCheck(func, ev) == func.disabled

Skipped(func, ev) ==
    \/ func.disabled
    \/ (func.admin_only /\ ~check_admin(ev))

\* The reply of the except branch: only for a privmsg event, to the source nick.
ApologyAlways(id, ev) ==
    <<[to |-> ev.nick, module |-> id[1], function |-> id[2]]>>

Apology(id, ev) ==
    IF ev.type = "privmsg"
    THEN <<[to |-> ev.nick, module |-> id[1], function |-> id[2]]>>
    ELSE <<>>

\* One iteration of the inner loop, on the logs gathered so far.  acc.escaped
\* is set when an exception leaves the iteration; the try/except BaseException
\* around _execute_function never lets one through.
VisitUncaught(acc, c, ev, cmd, fails) ==
    IF Skipped(c.func, ev) \/ ev.type \notin c.func.events THEN acc
    ELSE LET r == execute_function(c.id, c.func, ev, cmd, fails)
         IN [acc EXCEPT !.calls = @ \o r.calls,
                        !.attempted = Append(@, c.id),
                        !.escaped = r.raised]

Visit(acc, c, ev, cmd, fails) ==
    IF Skipped(c.func, ev) THEN acc
    ELSE IF ev.type \notin c.func.events THEN acc
    ELSE LET r == execute_function(c.id, c.func, ev, cmd, fails)
         IN [acc EXCEPT !.calls = @ \o r.calls,
                        !.attempted = Append(@, c.id),
                        !.replies = IF r.raised THEN @ \o Apology(c.id, ev) ELSE @]

RECURSIVE DispatchFrom(_, _, _, _, _)
DispatchFrom(acc, i, ev, cmd, fails) ==
    IF i > Len(Callables) \/ acc.escaped THEN acc
    ELSE DispatchFrom(Visit(acc, Callables[i], ev, cmd, fails), i + 1, ev, cmd, fails)

NoLogs == [calls |-> <<>>, attempted |-> <<>>, replies |-> <<>>, escaped |-> FALSE]

\* args = event.arguments[0].split(); if len(args) == 0: return
\* event.cmd = args[0].lower()
dispatch(ev, fails) ==
    IF Len(ev.msg) = 0 THEN NoLogs
    ELSE DispatchFrom(NoLogs, 1, ev, Lower(ev.msg[1]), fails)

Dispatch ==
    /\ dpc = "ready"
    /\ LET r == dispatch(event, failing)
       IN /\ calls' = r.calls
          /\ attempted' = r.attempted
          /\ replies' = r.replies
          /\ escaped' = r.escaped
    /\ dpc' = "done"
    /\ UNCHANGED <<event, failing, svars, lvars, avars, tvars>>

(***************************************************************************)
(* Control-socket payloads.  A payload is a sequence of pieces of text:    *)
(* a space, a line feed, a byte that is no valid UTF-8, or a word.         *)
(***************************************************************************)
MaxPayloadLen == 4

SP == " "
LF == "\n"
BadByte == "<ff>"
Replacement == "<U+FFFD>"

Atoms == {SP, LF, BadByte, "privmsg", "/privmsg", "#", "bob"}

Payloads == SeqsUpTo(Atoms, MaxPayloadLen)

IsSpace(a) == a \in {SP, LF}

\* bytes.decode('utf-8', errors='replace')
Decode(raw) == [i \in 1..Len(raw) |-> IF raw[i] = BadByte THEN Replacement ELSE raw[i]]

\* str.strip()
RECURSIVE LStrip(_)
LStrip(d) == IF d # <<>> /\ IsSpace(Head(d)) THEN LStrip(Tail(d)) ELSE d

RECURSIVE RStrip(_)
RStrip(d) ==
    IF d # <<>> /\ IsSpace(d[Len(d)]) THEN RStrip(SubSeq(d, 1, Len(d) - 1)) ELSE d

Strip(d) == RStrip(LStrip(d))

\* str.split(): the maximal runs of text without whitespace.
RECURSIVE SplitFrom(_, _, _)
SplitFrom(d, i, cur) ==
    IF i > Len(d) THEN (IF cur = "" THEN <<>> ELSE <<cur>>)
    ELSE IF IsSpace(d[i])
         THEN (IF cur = "" THEN <<>> ELSE <<cur>>) \o SplitFrom(d, i + 1, "")
    ELSE SplitFrom(d, i + 1, cur \o d[i])

Split(d) == SplitFrom(d, 1, "")

\* data = client_socket.recv(510).decode('utf-8', errors='replace').strip()
Received(raw) == Strip(Decode(raw))

\* The two `continue` tests of Listener.run.
RejectedPrivmsgOnly(tokens) ==
    \/ Len(tokens) < 2
    \/ (tokens[1] = "privmsg" /\ tokens[2] = "#")

Rejected(tokens) ==
    \/ Len(tokens) < 2
    \/ (tokens[1] \in {"/privmsg", "privmsg"} /\ tokens[2] = "#")

(***************************************************************************)
(* The bots (Hermes objects) and their listeners.                          *)
(***************************************************************************)
MaxBots == 2
MaxStarts == 3
MaxBacklog == 1
MaxSends == 1
MaxRequests == 1

Bots == 1..MaxBots

\* What a client of the integrated model sends: one valid relay line.
RelayLines == {<<"privmsg", SP, "bob">>}

\* What lraw and ldata hold before the first recv: data is not bound yet.
Unread == <<"<unread>">>

\* Thread.is_alive(): started and run() not finished.
IsAlive(b) == lpc[b] \in {"bind", "loop", "accept", "handle"}

\* A live session: the connection of the bot hermes names, and it is up.
Live(b) == hermes = b /\ connected[b]

\* A client connects to host:port and sends its payload.
ClientSend(p) ==
    /\ listening # 0
    /\ Len(backlog) < MaxBacklog
    /\ sent < MaxSends
    /\ backlog' = Append(backlog, p)
    /\ sent' = sent + 1
    /\ UNCHANGED <<dvars, avars, tvars, svars, socketCfg, lpc, lrunning, lattached, lraw, ldata,
                   listening, forwards>>

\* server_socket.bind(...); server_socket.listen(5).  The bind fails, and the
\* thread ends with the error, when another socket is bound to the address.
ListenerBind(b) ==
    /\ lpc[b] = "bind"
    /\ IF listening = 0
       THEN /\ listening' = b
            /\ lpc' = [lpc EXCEPT ![b] = "loop"]
       ELSE /\ lpc' = [lpc EXCEPT ![b] = "dead"]
            /\ UNCHANGED listening
    /\ UNCHANGED <<dvars, avars, tvars, svars, socketCfg, lrunning, lattached, lraw, ldata, backlog,
                   sent, forwards>>

\* while self.running: ... ; server_socket.close()
ListenerLoop(b) ==
    /\ lpc[b] = "loop"
    /\ IF lrunning[b]
       THEN /\ lpc' = [lpc EXCEPT ![b] = "accept"]
            /\ UNCHANGED <<listening, backlog>>
       ELSE /\ lpc' = [lpc EXCEPT ![b] = "dead"]
            /\ listening' = 0
            /\ backlog' = <<>>
    /\ UNCHANGED <<dvars, avars, tvars, svars, socketCfg, lrunning, lattached, lraw, ldata, sent,
                   forwards>>

\* client_socket, address = server_socket.accept(); data = ...recv(510)...;
\* client_socket.close()
ListenerAccept(b) ==
    /\ lpc[b] = "accept"
    /\ listening = b
    /\ backlog # <<>>
    /\ lraw' = [lraw EXCEPT ![b] = Head(backlog)]
    /\ ldata' = [ldata EXCEPT ![b] = Received(Head(backlog))]
    /\ backlog' = Tail(backlog)
    /\ lpc' = [lpc EXCEPT ![b] = "handle"]
    /\ UNCHANGED <<dvars, avars, tvars, svars, socketCfg, lrunning, lattached, listening, sent,
                   forwards>>

\* The try block of Listener.run: validate, then connection.send_raw(data).
ListenerHandle(b) ==
    /\ lpc[b] = "handle"
    /\ forwards' =
         IF ~Rejected(Split(ldata[b])) /\ lattached[b]
         THEN Append(forwards, [bot |-> b, data |-> ldata[b], live |-> Live(b)])
         ELSE forwards
    /\ lpc' = [lpc EXCEPT ![b] = "loop"]
    /\ UNCHANGED <<dvars, avars, tvars, svars, socketCfg, lrunning, lattached, lraw, ldata,
                   listening, backlog, sent>>

(***************************************************************************)
(* Hermes.on_welcome, Hermes.disconnect, Hermes.restart                    *)
(***************************************************************************)
CrashWindow == 5
RebootPause == 2
RestartPause == 5

\* Seconds a session runs before something happens to it.
Elapsed == {1, 4, 5}

\* if last_run > time.time() - 5
FastCrashInverted(t) == last_run < t - CrashWindow

FastCrash(t) == last_run > t - CrashWindow

NoExc == [kind |-> "none", el |-> 0, start |-> 0, inHandler |-> FALSE]

NoSignal == [n |-> 0, start |-> 0]

NoRequest == [n |-> 0, bot |-> 0]

\* An exception of class kind leaves hermes.start() at time t: the except
\* clauses of run_hermes when the session was started in the try block, no
\* clause at all when it was started inside the except RestartException block.
Raise(kind, t) ==
    /\ lastExc' = [kind |-> kind, el |-> t - sessStart, start |-> starts,
                   inHandler |-> inHandler]
    /\ IF inHandler
       THEN supPc' = "escaped" /\ branch' = "none"
       ELSE IF kind = "term"
            THEN supPc' = "disc_stop" /\ branch' = "term"
       ELSE IF kind = "restart"
            THEN supPc' = "restart" /\ branch' = "none"
       ELSE /\ supPc' = "disc_stop"
            /\ branch' = IF FastCrash(t) THEN "fatal" ELSE "reboot"

\* on_welcome: start the listener unless its thread is alive.  Thread.start()
\* on a thread that was started before raises RuntimeError.
Welcome ==
    /\ supPc = "session"
    /\ ~welcomed
    /\ connected[hermes]
    /\ welcomed' = TRUE
    /\ IF socketCfg /\ ~IsAlive(hermes)
       THEN /\ lattached' = [lattached EXCEPT ![hermes] = TRUE]
            /\ IF lpc[hermes] = "new"
               THEN /\ lpc' = [lpc EXCEPT ![hermes] = "bind"]
                    /\ UNCHANGED <<supPc, branch, lastExc>>
               ELSE /\ Raise("crash", now)
                    /\ UNCHANGED lpc
       ELSE UNCHANGED <<lattached, lpc, supPc, branch, lastExc>>
    /\ UNCHANGED <<dvars, avars, tvars, run_eternal, now, last_run, hermes, inHandler, connected,
                   quits, starts, sessStart, socketCfg, lrunning, lraw, ldata,
                   listening, backlog, sent, forwards>>

\* The running session raises: a termination-class exception (KeyboardInterrupt,
\* SystemError of on_erroneusenickname, SystemExit) or any other one.
SessionRaise(kind, el) ==
    /\ supPc = "session"
    /\ now' = now + el
    /\ Raise(kind, now + el)
    /\ UNCHANGED <<dvars, avars, tvars, lvars, run_eternal, last_run, hermes, inHandler, connected,
                   welcomed, quits, starts, sessStart>>

\* Hermes.restart called in the running session: self.disconnect() first.
RestartRequest(el) ==
    /\ supPc = "session"
    /\ now' = now + el
    /\ supPc' = "disc_stop"
    /\ branch' = "restart"
    /\ UNCHANGED <<dvars, avars, tvars, lvars, run_eternal, last_run, hermes, inHandler, connected,
                   welcomed, quits, starts, sessStart, lastExc>>

\* A handler calls Hermes.restart while _dispatch runs it: self.disconnect()
\* first.  What restart raises, _dispatch catches (except BaseException).
HandlerRestart(el) ==
    /\ supPc = "session"
    /\ hrestart.n + sigterm.n < MaxRequests
    /\ hrestart' = [n |-> hrestart.n + 1,
                    bot |-> IF hrestart.n = 0 THEN hermes ELSE hrestart.bot]
    /\ now' = now + el
    /\ supPc' = "disc_stop"
    /\ branch' = "handler"
    /\ UNCHANGED <<dvars, lvars, tvars, sigterm, run_eternal, last_run, hermes, inHandler,
                   connected, welcomed, quits, starts, sessStart, lastExc>>

\* signal_handler(SIGTERM, _), run by the main thread inside hermes.start():
\* hermes.disconnect().
SigTerm(el) ==
    /\ supPc = "session"
    /\ hrestart.n + sigterm.n < MaxRequests
    /\ sigterm' = [n |-> sigterm.n + 1,
                   start |-> IF sigterm.n = 0 THEN starts ELSE sigterm.start]
    /\ now' = now + el
    /\ supPc' = "disc_stop"
    /\ branch' = "signal"
    /\ UNCHANGED <<dvars, lvars, tvars, hrestart, run_eternal, last_run, hermes, inHandler,
                   connected, welcomed, quits, starts, sessStart, lastExc>>

\* Hermes.disconnect up to Listener.stop: self.running = False
DiscStop ==
    /\ supPc = "disc_stop"
    /\ IF socketCfg
       THEN /\ lrunning' = [lrunning EXCEPT ![hermes] = FALSE]
            /\ supPc' = "disc_wake"
       ELSE /\ supPc' = "disc_sess"
            /\ UNCHANGED lrunning
    /\ UNCHANGED <<dvars, avars, tvars, run_eternal, now, last_run, hermes, inHandler, branch,
                   connected, welcomed, quits, starts, sessStart, lastExc, socketCfg,
                   lpc, lattached, lraw, ldata, listening, backlog, sent, forwards>>

\* The throwaway connection of Listener.stop: it carries no payload.
NoWakeUp(bl) == bl

WakeUp(bl) == Append(bl, <<>>)

\* Listener.stop: client_socket.connect((host, port)); client_socket.close().
\* With nothing listening on the address connect raises ConnectionRefusedError:
\* into _dispatch, which catches it, when a handler called restart(); inside
\* the session when restart() or the signal handler called disconnect; else
\* inside an except block of run_hermes, which it leaves.
DiscWake ==
    /\ supPc = "disc_wake"
    /\ IF listening # 0
       THEN /\ backlog' = WakeUp(backlog)
            /\ supPc' = "disc_sess"
            /\ UNCHANGED <<branch, lastExc>>
       ELSE /\ UNCHANGED backlog
            /\ IF branch = "handler"
               THEN /\ supPc' = "session"
                    /\ branch' = "none"
                    /\ UNCHANGED lastExc
               ELSE IF branch \in {"restart", "signal"}
               THEN Raise("crash", now)
               ELSE /\ supPc' = "escaped"
                    /\ branch' = "none"
                    /\ UNCHANGED lastExc
    /\ UNCHANGED <<dvars, avars, tvars, run_eternal, now, last_run, hermes, inHandler, connected,
                   welcomed, quits, starts, sessStart, socketCfg, lpc, lrunning,
                   lattached, lraw, ldata, listening, sent, forwards>>

QuitMessage(br) ==
    CASE br \in {"restart", "handler", "signal"} -> "I'll be back!"
      [] br = "term"    -> "Leaving..."
      [] br = "fatal"   -> "Crashed, going offline."
      [] br = "reboot"  -> "Crashed, going to reboot..."

\* super().disconnect(msg), and what the caller of Hermes.disconnect does next:
\* break; run_eternal = False; time.sleep(2); raise RestartException, which
\* _dispatch catches when a handler is the caller; the signal handler returns
\* to the session it interrupted.
DiscSess ==
    /\ supPc = "disc_sess"
    /\ connected' = [connected EXCEPT ![hermes] = FALSE]
    /\ quits' = Append(quits, [bot |-> hermes, msg |-> QuitMessage(branch)])
    /\ CASE branch = "term" ->
              /\ supPc' = "stopped"
              /\ branch' = "none"
              /\ UNCHANGED <<run_eternal, now, lastExc>>
         [] branch = "fatal" ->
              /\ run_eternal' = FALSE
              /\ supPc' = "loop"
              /\ branch' = "none"
              /\ UNCHANGED <<now, lastExc>>
         [] branch = "reboot" ->
              /\ now' = now + RebootPause
              /\ supPc' = "loop"
              /\ branch' = "none"
              /\ UNCHANGED <<run_eternal, lastExc>>
         [] branch = "restart" ->
              /\ Raise("restart", now)
              /\ UNCHANGED <<run_eternal, now>>
         [] branch \in {"handler", "signal"} ->
              /\ supPc' = "session"
              /\ branch' = "none"
              /\ UNCHANGED <<run_eternal, now, lastExc>>
    /\ UNCHANGED <<dvars, avars, tvars, lvars, last_run, hermes, inHandler, welcomed, starts,
                   sessStart>>

(***************************************************************************)
(* The loop of run_hermes                                                  *)
(***************************************************************************)
\* while run_eternal: try: last_run = time.time(); hermes.start()
SupLoop ==
    /\ supPc = "loop"
    /\ IF run_eternal
       THEN /\ starts < MaxStarts
            /\ last_run' = now
            /\ sessStart' = now
            /\ starts' = starts + 1
            /\ connected' = [connected EXCEPT ![hermes] = TRUE]
            /\ welcomed' = FALSE
            /\ inHandler' = FALSE
            /\ supPc' = "session"
       ELSE /\ supPc' = "fatal"
            /\ UNCHANGED <<last_run, sessStart, starts, connected, welcomed, inHandler>>
    /\ UNCHANGED <<dvars, avars, tvars, lvars, run_eternal, now, hermes, branch, quits, lastExc>>

\* except RestartException: time.sleep(5); hermes = Hermes(); hermes.start()
Restart ==
    /\ supPc = "restart"
    /\ hermes < MaxBots
    /\ starts < MaxStarts
    /\ now' = now + RestartPause
    /\ hermes' = hermes + 1
    /\ sessStart' = now + RestartPause
    /\ starts' = starts + 1
    /\ connected' = [connected EXCEPT ![hermes + 1] = TRUE]
    /\ welcomed' = FALSE
    /\ inHandler' = TRUE
    /\ supPc' = "session"
    /\ UNCHANGED <<dvars, avars, tvars, lvars, run_eternal, last_run, branch, quits, lastExc>>

(***************************************************************************)
(* PollApi.run: the health poller                                          *)
(***************************************************************************)
MaxThreshold == 3
MaxProbes == 3

\* self.bot.api_poll_results[1:]
AfterFirst(w) == IF w = <<>> THEN <<>> ELSE Tail(w)

\* if len(results) < threshold: results + [result] else: results[1:] + [result]
RecordAppendOnly(w, threshold, result) == Append(w, result)

Record(w, threshold, result) ==
    IF Len(w) < threshold
    THEN Append(w, result)
    ELSE Append(AfterFirst(w), result)

\* all(self.bot.api_poll_results)
All(w) == \A i \in 1..Len(w) : w[i]

\* if all(self.bot.api_poll_results) and not self.bot.api_poll_messaged
AlertingWhenever(w, messaged) == All(w)

Alerting(w, messaged) == All(w) /\ ~messaged

\* One pass of the body of while True, before the sleep, on the window, the
\* flag and the log of the bot: result is True when get_user(1) returned None.
PollStep(st, threshold, result) ==
    LET w == Record(st.results, threshold, result)
    IN IF Alerting(w, st.messaged)
       THEN [results |-> w, messaged |-> TRUE,
             alerts |-> Append(st.alerts, [admins |-> Admins, window |-> w])]
       ELSE [results |-> w, messaged |-> st.messaged, alerts |-> st.alerts]

\* Hermes.__init__: api_poll_results = [], api_poll_messaged = False
NoPolls == [results |-> <<>>, messaged |-> FALSE, alerts |-> <<>>]

\* The passes of the loop body for a sequence of probe results, from NoPolls.
RECURSIVE PollRun(_, _)
PollRun(threshold, probes) ==
    IF probes = <<>> THEN NoPolls
    ELSE PollStep(PollRun(threshold, SubSeq(probes, 1, Len(probes) - 1)), threshold,
                  probes[Len(probes)])

NoTick == [found |-> <<>>, result |-> FALSE, messaged |-> FALSE, sent |-> FALSE]

\* The body of while True up to the sleep: probe, record, notify.
PollTick(result) ==
    /\ ppc = "tick"
    /\ LET st == PollStep([results |-> api_poll_results,
                           messaged |-> api_poll_messaged,
                           alerts |-> alerts], api_poll_threshold, result)
       IN /\ api_poll_results' = st.results
          /\ api_poll_messaged' = st.messaged
          /\ alerts' = st.alerts
          /\ tick' = [found |-> api_poll_results, result |-> result,
                      messaged |-> api_poll_messaged,
                      sent |-> Len(st.alerts) > Len(alerts)]
    /\ ppc' = "sleep"
    /\ UNCHANGED <<bvars, fvars, cvars, api_poll_threshold>>

\* time.sleep(self.api_poll_heartbeat): api_poll_heartbeat is an attribute of
\* the bot, not of the PollApi thread; the lookup raises AttributeError and
\* the thread ends.
PollSleep ==
    /\ ppc = "sleep"
    /\ ppc' = "dead"
    /\ UNCHANGED <<bvars, fvars, cvars, api_poll_threshold, api_poll_results, api_poll_messaged,
                   alerts, tick>>

\* The poller left out: its thread is not looked at.
PollerIdle ==
    /\ ppc = "off"
    /\ api_poll_threshold = 1
    /\ api_poll_results = <<>>
    /\ api_poll_messaged = FALSE
    /\ alerts = <<>>
    /\ tick = NoTick

(***************************************************************************)
(* SaveData: the persistence flusher                                       *)
(***************************************************************************)
MaxSaves == 2

InitialCycle == 480
SaveInterval == 600

\* if cycle >= 600
Saving(c) == c >= SaveInterval

\* if cycle >= 600: ...; cycle = 0
\* cycle += 1
AfterTickEitherOr(c) == IF Saving(c) THEN 0 ELSE c + 1

AfterTick(c) == (IF Saving(c) THEN 0 ELSE c) + 1

NoFTick == [found |-> 0, saved |-> FALSE]

\* One pass of while self.alive: save when due, count, sleep one second.
FlusherTick ==
    /\ fpc = "run"
    /\ alive
    /\ Saving(cycle) => saves < MaxSaves
    /\ saves' = IF Saving(cycle) THEN saves + 1 ELSE saves
    /\ cycle' = AfterTick(cycle)
    /\ ftick' = [found |-> cycle, saved |-> Saving(cycle)]
    /\ UNCHANGED <<bvars, pvars, cvars, fpc, alive>>

\* while self.alive fails: run() returns.
FlusherExit ==
    /\ fpc = "run"
    /\ ~alive
    /\ fpc' = "dead"
    /\ UNCHANGED <<bvars, pvars, cvars, cycle, alive, saves, ftick>>

\* SaveData.stop, called in the finally of run_hermes: self.alive = False
FlusherStop ==
    /\ fpc = "run"
    /\ alive
    /\ alive' = FALSE
    /\ UNCHANGED <<bvars, pvars, cvars, fpc, cycle, saves, ftick>>

\* The flusher left out: its thread is not looked at.
FlusherIdle ==
    /\ fpc = "off"
    /\ cycle = InitialCycle
    /\ alive = TRUE
    /\ saves = 0
    /\ ftick = NoFTick

(***************************************************************************)
(* run_hermes up to the loop: arguments, pid file, fork, threads           *)
(***************************************************************************)
\* The levels -v can be given at: none, file logging, console logging.
Verbosity == {0, 1, 2}

Args == [stop : BOOLEAN, kill : BOOLEAN, no_eternal : BOOLEAN, nofork : BOOLEAN,
         verbose : Verbosity]

NoArgs == [stop |-> FALSE, kill |-> FALSE, no_eternal |-> FALSE, nofork |-> FALSE,
           verbose |-> 0]

PidFiles == {"absent", "garbage", "dead", "running"}

NoExit == [status |-> "none", msg |-> "none"]

\* raise SystemExit(msg): the message is printed and the status is 1.
\* raise SystemExit(0) and raise SystemExit: status 0, nothing printed.
ExitWith(msg) == [status |-> "nonzero", msg |-> msg]
ExitZero == [status |-> "zero", msg |-> "none"]

\* old_pid = int(open_pidfile.read().strip()), None on ValueError
OldPid == IF found = "garbage" THEN "None" ELSE found

\* check_pid(old_pid): the process the pid file names is running.
check_pid(pid) == pid = "running"

\* if args.nofork is not True and args.verbose < 2: os.fork(); the parent
\* raises SystemExit and the child goes on.
Forks == ~args.nofork /\ args.verbose < 2

\* What start-up ends with for the arguments and the pid file it finds:
\* "root", "signal" (the old instance signalled), "exists", "notrunning",
\* or "start" (the pid file block left or skipped).
Outcome ==
    IF root THEN "root"
    ELSE IF found = "absent" THEN "start"
    ELSE IF OldPid # "None" /\ check_pid(OldPid)
         THEN IF args.stop \/ args.kill THEN "signal" ELSE "exists"
    ELSE IF args.stop \/ args.kill THEN "notrunning"
    ELSE "start"

\* run_hermes from _parse_args() to the statement before the while loop.
Startup ==
    /\ cpc = "args"
    /\ CASE Outcome = "root" ->
              /\ exit' = ExitWith("Error: Do not run Hermes with root privileges.")
              /\ cpc' = "exit"
              /\ UNCHANGED <<killed, pidfile, daemon, run_eternal, supPc, ppc, fpc>>
         [] Outcome = "signal" ->
              /\ killed' = IF args.stop THEN "SIGTERM" ELSE "SIGKILL"
              /\ pidfile' = "none"
              /\ exit' = ExitZero
              /\ cpc' = "exit"
              /\ UNCHANGED <<daemon, run_eternal, supPc, ppc, fpc>>
         [] Outcome = "exists" ->
              /\ exit' = ExitWith("hermes.pid already exists, exiting")
              /\ cpc' = "exit"
              /\ UNCHANGED <<killed, pidfile, daemon, run_eternal, supPc, ppc, fpc>>
         [] Outcome = "notrunning" ->
              /\ exit' = ExitWith("Hermes is not currently running.")
              /\ cpc' = "exit"
              /\ UNCHANGED <<killed, pidfile, daemon, run_eternal, supPc, ppc, fpc>>
         [] Outcome = "start" ->
              /\ daemon' = Forks
              /\ pidfile' = "own"
              /\ run_eternal' = ~args.no_eternal
              /\ supPc' = "loop"
              /\ ppc' = "tick"
              /\ fpc' = "run"
              /\ cpc' = "up"
              /\ UNCHANGED <<killed, exit>>
    /\ UNCHANGED <<dvars, lvars, avars, args, root, found, now, last_run, hermes,
                   inHandler, branch, connected, welcomed, quits, starts, sessStart,
                   lastExc, api_poll_threshold, api_poll_results, api_poll_messaged,
                   alerts, tick, cycle, alive, saves, ftick>>

\* The start-up left out: the process is up, started with no switch.
StartupDone ==
    /\ cpc = "up"
    /\ args = NoArgs
    /\ root = FALSE
    /\ found = "absent"
    /\ pidfile = "own"
    /\ exit = NoExit
    /\ killed = "none"
    /\ daemon = FALSE

(***************************************************************************)
(* Specifications                                                          *)
(***************************************************************************)
NoEvent == [type |-> "none", nick |-> "", host |-> NoHost, msg |-> <<>>]

DispatcherIdle ==
    /\ dpc = "idle"
    /\ event = NoEvent
    /\ failing = {}
    /\ calls = <<>>
    /\ attempted = <<>>
    /\ replies = <<>>
    /\ escaped = FALSE

\* The first bot, hermes = Hermes(), and its listener: nothing started.
FirstBot ==
    /\ DispatcherIdle
    /\ now = 0
    /\ last_run = 0
    /\ hermes = 1
    /\ inHandler = FALSE
    /\ branch = "none"
    /\ connected = [b \in Bots |-> FALSE]
    /\ welcomed = FALSE
    /\ quits = <<>>
    /\ starts = 0
    /\ sessStart = 0
    /\ lastExc = NoExc
    /\ sigterm = NoSignal
    /\ hrestart = NoRequest
    /\ socketCfg \in BOOLEAN
    /\ lpc = [b \in Bots |-> "new"]
    /\ lrunning = [b \in Bots |-> TRUE]
    /\ lattached = [b \in Bots |-> FALSE]
    /\ lraw = [b \in Bots |-> Unread]
    /\ ldata = [b \in Bots |-> Unread]
    /\ listening = 0
    /\ backlog = <<>>
    /\ sent = 0
    /\ forwards = <<>>

\* run_hermes before the loop, run with no switch.
BeforeLoop ==
    /\ FirstBot
    /\ supPc = "loop"
    /\ run_eternal = TRUE
    /\ StartupDone

Init ==
    /\ BeforeLoop
    /\ PollerIdle
    /\ FlusherIdle

Next ==
    \/ SupLoop
    \/ Welcome
    \/ \E kind \in {"term", "crash"}, el \in Elapsed : SessionRaise(kind, el)
    \/ \E el \in Elapsed : RestartRequest(el)
    \/ DiscStop
    \/ DiscWake
    \/ DiscSess
    \/ Restart
    \/ \E p \in RelayLines : ClientSend(p)
    \/ \E b \in Bots : ListenerBind(b)
    \/ \E b \in Bots : ListenerLoop(b)
    \/ \E b \in Bots : ListenerAccept(b)
    \/ \E b \in Bots : ListenerHandle(b)

Spec == Init /\ [][Next]_vars

\* The listener thread and the main thread keep running once they can take a
\* step; clients and session failures are under no obligation to happen.
FairSpec ==
    /\ Spec
    /\ \A b \in Bots : WF_vars(ListenerLoop(b))
    /\ \A b \in Bots : WF_vars(ListenerAccept(b))
    /\ \A b \in Bots : WF_vars(ListenerHandle(b))
    /\ WF_vars(DiscWake)

\* The same program when handlers ask for a restart and SIGTERM is delivered.
NextRequests ==
    \/ Next
    \/ \E el \in Elapsed : HandlerRestart(el)
    \/ \E el \in Elapsed : SigTerm(el)

SpecRequests == Init /\ [][NextRequests]_vars

\* The first session after its welcome: the listener of bot 1 is bound and
\* blocked in accept, its connection set.
SessionUp ==
    /\ supPc = "session"
    /\ run_eternal = TRUE
    /\ now = 0
    /\ last_run = 0
    /\ hermes = 1
    /\ inHandler = FALSE
    /\ branch = "none"
    /\ connected = [b \in Bots |-> b = 1]
    /\ welcomed = TRUE
    /\ quits = <<>>
    /\ starts = 1
    /\ sessStart = 0
    /\ lastExc = NoExc
    /\ sigterm = NoSignal
    /\ hrestart = NoRequest
    /\ socketCfg = TRUE
    /\ lpc = [b \in Bots |-> IF b = 1 THEN "accept" ELSE "new"]
    /\ lrunning = [b \in Bots |-> TRUE]
    /\ lattached = [b \in Bots |-> b = 1]
    /\ lraw = [b \in Bots |-> Unread]
    /\ ldata = [b \in Bots |-> Unread]
    /\ listening = 1
    /\ forwards = <<>>
    /\ PollerIdle
    /\ FlusherIdle
    /\ StartupDone

\* One event arrives in the running session.
InitDispatch ==
    /\ SessionUp
    /\ backlog = <<>>
    /\ sent = 0
    /\ dpc = "ready"
    /\ event \in Events
    /\ failing \in SUBSET HandlerIds
    /\ calls = <<>>
    /\ attempted = <<>>
    /\ replies = <<>>
    /\ escaped = FALSE

NextDispatch == Dispatch

SpecDispatch == InitDispatch /\ [][NextDispatch]_vars

\* One client has connected to the control socket of the running session and
\* sent its payload.
InitRelay ==
    /\ SessionUp
    /\ DispatcherIdle
    /\ \E p \in Payloads : backlog = <<p>>
    /\ sent = 1

NextRelay ==
    \/ ListenerAccept(1)
    \/ ListenerHandle(1)
    \/ ListenerLoop(1)

SpecRelay == InitRelay /\ [][NextRelay]_vars

\* The poller thread about to run the loop body, on the window that the
\* passes made for some sequence of probe results have left; the empty
\* sequence is the thread as api_poller.start() starts it.
InitPoll ==
    /\ BeforeLoop
    /\ FlusherIdle
    /\ ppc = "tick"
    /\ api_poll_threshold \in 1..MaxThreshold
    /\ \E probes \in SeqsUpTo(BOOLEAN, MaxProbes) :
          LET st == PollRun(api_poll_threshold, probes)
          IN /\ api_poll_results = st.results
             /\ api_poll_messaged = st.messaged
             /\ alerts = st.alerts
    /\ tick = NoTick

NextPoll ==
    \/ \E result \in BOOLEAN : PollTick(result)
    \/ PollSleep

SpecPoll == InitPoll /\ [][NextPoll]_vars

\* The flusher thread as save_thread.start() starts it.
InitFlush ==
    /\ BeforeLoop
    /\ PollerIdle
    /\ fpc = "run"
    /\ cycle = InitialCycle
    /\ alive = TRUE
    /\ saves = 0
    /\ ftick = NoFTick

NextFlush ==
    \/ FlusherTick
    \/ FlusherExit
    \/ FlusherStop

SpecFlush == InitFlush /\ [][NextFlush]_vars

\* run_hermes is entered: the arguments given, the user, and the pid file an
\* earlier instance has or has not left.
InitStart ==
    /\ FirstBot
    /\ supPc = "off"
    /\ run_eternal = TRUE
    /\ PollerIdle
    /\ FlusherIdle
    /\ cpc = "args"
    /\ args \in Args
    /\ root \in BOOLEAN
    /\ found \in PidFiles
    /\ pidfile = IF found = "absent" THEN "none" ELSE "old"
    /\ exit = NoExit
    /\ killed = "none"
    /\ daemon = FALSE

\* Start-up, and the first turn of the loop it leads to.
NextStart ==
    \/ Startup
    \/ SupLoop

SpecStart == InitStart /\ [][NextStart]_vars

(***************************************************************************)
(* Properties of the dispatcher                                            *)
(***************************************************************************)
Dispatched == dpc = "done" /\ Len(event.msg) > 0

\* The lower-cased first token of the dispatched message.
FirstToken == Lower(event.msg[1])

\* The admin restriction as the specification words it.
PassesAdminCheck ==
    /\ event.nick \in Admins
    /\ event.host # NoHost
    /\ HostEndsWithTld(event.host)
    /\ event.host[1] \notin Admins

Eligible(func) ==
    /\ ~func.disabled
    /\ event.type \in func.events
    /\ (func.admin_only => PassesAdminCheck)

CallsOf(id) == {i \in 1..Len(calls) : calls[i].handler = id}

CommandCalls(id, command) ==
    {i \in CallsOf(id) : calls[i].via = "command" /\ calls[i].key = command}

\* A handler failed: its body raises and it was called.
Raised(id) == id \in failing /\ CallsOf(id) # {}

DeclaredCommands ==
    UNION {{Callables[i].func.commands[k] : k \in 1..Len(Callables[i].func.commands)} :
             i \in 1..Len(Callables)}

\* C1: every handler that is not disabled, listens to the event's type and
\* passes the admin restriction is invoked exactly once for each declared
\* command c with first token = "."+c or "!"+c, or = c in a direct message;
\* a bare command token in a channel message invokes no command handler.
C1_CommandMatch ==
    Dispatched =>
      /\ \A i \in 1..Len(Callables) :
           LET func == Callables[i].func
           IN \A k \in 1..Len(func.commands) :
                LET c == func.commands[k]
                    matches == \/ FirstToken = "." \o c
                               \/ FirstToken = "!" \o c
                               \/ (event.type = "privmsg" /\ FirstToken = c)
                IN (Eligible(func) /\ matches) =>
                       Cardinality(CommandCalls(Callables[i].id, c)) = 1
      /\ (event.type = "pubmsg" /\ FirstToken \in DeclaredCommands) =>
             \A i \in 1..Len(calls) : calls[i].via # "command"

\* A direct message whose first token is the bare, mixed-case "Help" reached
\* both handlers that declare the command help, once each.
C1_Witness ==
    /\ Dispatched
    /\ event.type = "privmsg"
    /\ event.msg[1] = "Help"
    /\ Cardinality(CommandCalls(<<"core", "help">>, "help")) = 1
    /\ Cardinality(CommandCalls(<<"extra", "multi">>, "help")) = 1

\* C2: a disabled handler, and an admin-only handler when the source fails
\* the admin check, is invoked zero times whatever matches.
C2_NeverInvoked ==
    Dispatched =>
      \A i \in 1..Len(Callables) :
         LET func == Callables[i].func
         IN (func.disabled \/ (func.admin_only /\ ~PassesAdminCheck)) =>
                CallsOf(Callables[i].id) = {}

\* An admin nick whose host's first part is an admin name sent ".op hi":
\* both admin-only handlers match (command op, rule hi) and neither ran.
C2_Witness ==
    /\ Dispatched
    /\ event.nick = "alice"
    /\ event.host = <<"alice", "x.site.tld">>
    /\ event.msg = <<".op", "hi">>
    /\ CallsOf(<<"core", "op">>) = {}
    /\ CallsOf(<<"extra", "adm">>) = {}
    /\ CallsOf(<<"core", "off">>) = {}

\* The handlers of the registry, in order, that dispatch has to attempt.
RECURSIVE EligibleFrom(_)
EligibleFrom(i) ==
    IF i > Len(Callables) THEN <<>>
    ELSE (IF Eligible(Callables[i].func) THEN <<Callables[i].id>> ELSE <<>>)
         \o EligibleFrom(i + 1)

\* C3: a failure inside a handler is contained: every eligible handler, of
\* the same module and of the later ones, is still attempted in registry
\* order, and no exception leaves dispatch.
C3_FailureContained ==
    Dispatched => (~escaped /\ attempted = EligibleFrom(1))

\* A handler of the first module failed and handlers after it, in the same
\* module and in the next one, were still called.
C3_Witness ==
    /\ Dispatched
    /\ Raised(<<"core", "help">>)
    /\ CallsOf(<<"core", "op">>) # {}
    /\ Raised(<<"extra", "multi">>)
    /\ CallsOf(<<"extra", "adm">>) # {}

RepliesFor(id) ==
    {i \in 1..Len(replies) : replies[i].module = id[1] /\ replies[i].function = id[2]}

\* C4: in a direct message each handler failure is answered by exactly one
\* apology, addressed to the nick of the source; in a channel message no
\* reply is sent.
C4_Apology ==
    Dispatched =>
      /\ event.type = "privmsg" =>
           /\ \A id \in HandlerIds :
                Cardinality(RepliesFor(id)) = (IF Raised(id) THEN 1 ELSE 0)
           /\ \A i \in 1..Len(replies) : replies[i].to = event.nick
      /\ event.type = "pubmsg" => replies = <<>>

\* Two handlers failed on one direct message: two apologies, both to bob.
C4_Witness ==
    /\ Dispatched
    /\ event.type = "privmsg"
    /\ event.nick = "bob"
    /\ Raised(<<"core", "help">>)
    /\ Raised(<<"extra", "multi">>)
    /\ Len(replies) = 2

(***************************************************************************)
(* Properties of the control-socket listener                               *)
(***************************************************************************)
\* The listener of the running session is done with the payload it received.
Handled == backlog = <<>> /\ lpc[1] \in {"loop", "accept", "dead"}

\* The conditions of the claim on the tokens of a payload.
Forwardable(tokens) ==
    /\ Len(tokens) >= 2
    /\ ~(tokens[1] \in {"privmsg", "/privmsg"} /\ tokens[2] = "#")
    /\ lattached[1]

C6_NoStaleForward == \A i \in 1..Len(forwards) : forwards[i].live

\* C7: once stop() has cleared running while the thread is blocked in accept,
\* the thread leaves accept, closes the listening socket and ends, whether or
\* not a client ever connects.
C7_StopEndsListener ==
    \A b \in Bots :
       (lpc[b] = "accept" /\ ~lrunning[b]) ~> (lpc[b] = "dead" /\ listening # b)

\* The listener of bot 1 was stopped while blocked in accept: no client has
\* ever connected, the only connection it accepted is the throwaway one of
\* stop(), and the thread has ended with its socket closed.
C7_Witness ==
    /\ lpc[1] = "dead"
    /\ ~lrunning[1]
    /\ listening = 0
    /\ sent = 0
    /\ lraw[1] = <<>>
    /\ lattached[1]

(***************************************************************************)
(* Properties of the supervisor                                            *)
(***************************************************************************)
Disconnecting == supPc \in {"disc_stop", "disc_wake", "disc_sess"}

C9_CrashClassified ==
    lastExc.kind = "crash" =>
        /\ supPc # "escaped"
        /\ lastExc.el < CrashWindow =>
              /\ starts = lastExc.start
              /\ Disconnecting => branch = "fatal"
        /\ lastExc.el >= CrashWindow =>
              (Disconnecting => branch = "reboot")

\* C10: after a termination-class exception of a running session the
\* supervisor disconnects with the farewell message and reaches STOPPED; it
\* starts no other session and the exception never ends the loop otherwise.
C10_TerminationStops ==
    lastExc.kind = "term" =>
        /\ supPc \in {"disc_stop", "disc_wake", "disc_sess", "stopped"}
        /\ Disconnecting => branch = "term"
        /\ starts = lastExc.start
        /\ supPc = "stopped" =>
              (quits # <<>> /\ quits[Len(quits)].msg = "Leaving...")

\* The supervisor is on its way to STOPPED or there.
Stopping == Disconnecting \/ supPc = "stopped"

\* C11: once SIGTERM has been delivered to a running session the supervisor is
\* disconnecting that session or STOPPED: it is never back in a session or in
\* the run loop, no exception ends the loop, and no session is started again.
C11_SigtermStops ==
    sigterm.n > 0 => (Stopping /\ starts = sigterm.start)

\* C12: once a handler has called Hermes.restart during a dispatch, the
\* session is being torn down, or the supervisor is RESTARTING, or it has
\* constructed a new bot: it is never back in the session of the old bot.
C12_HandlerRestartRestarts ==
    hrestart.n > 0 =>
        \/ Disconnecting /\ branch = "handler"
        \/ supPc = "restart"
        \/ hermes > hrestart.bot

\* C13: no exception raised by a running session, or by the teardown that
\* handles it, leaves the loop of the supervisor unclassified.
C13_NothingEscapes == supPc # "escaped"

(***************************************************************************)
(* Properties of the health poller                                         *)
(***************************************************************************)
\* A pass of the loop body has been made.
Ticked == ppc \in {"sleep", "dead"}

\* C14: the window never holds more than threshold entries; a tick that finds
\* it holding threshold entries drops the oldest and appends its result, the
\* others keeping their order, and a tick that finds fewer only appends.
C14_WindowBounded ==
    /\ Len(api_poll_results) <= api_poll_threshold
    /\ Ticked =>
          api_poll_results =
             IF Len(tick.found) = api_poll_threshold
             THEN Append(Tail(tick.found), tick.result)
             ELSE Append(tick.found, tick.result)

\* A tick found the window of capacity 2 full and put a failure in: the
\* older entry is gone, the other one moved up.
C14_Witness ==
    /\ ppc = "sleep"
    /\ api_poll_threshold = 2
    /\ tick.found = <<TRUE, FALSE>>
    /\ tick.result = TRUE
    /\ api_poll_results = <<FALSE, TRUE>>

\* C15: no admin is notified more than once; the alerted flag, once set,
\* stays set, and a tick that finds it set sends nothing, whatever its window.
C15_AlertedOnce ==
    /\ \A a \in Admins :
          Cardinality({i \in 1..Len(alerts) : a \in alerts[i].admins}) <= 1
    /\ alerts # <<>> => api_poll_messaged
    /\ (Ticked /\ tick.messaged) => (~tick.sent /\ api_poll_messaged)

\* The notification went out when the window of capacity 2 filled up with
\* failures; the next tick fails too, leaves the window full of failures
\* again, and sends nothing.
C15_Witness ==
    /\ ppc = "sleep"
    /\ api_poll_threshold = 2
    /\ tick = [found |-> <<TRUE, TRUE>>, result |-> TRUE, messaged |-> TRUE,
               sent |-> FALSE]
    /\ api_poll_results = <<TRUE, TRUE>>
    /\ alerts = <<[admins |-> Admins, window |-> <<TRUE, TRUE>>]>>

\* C16: a tick notifies the admins only when the window, its probe recorded,
\* holds exactly threshold entries and all of them are failures.
C16_AlertOnlyWhenFull ==
    (Ticked /\ tick.sent) =>
        (Len(api_poll_results) = api_poll_threshold /\ All(api_poll_results))

\* C19: the poller thread never ends: after a tick it sleeps and ticks again.
C19_PollerKeepsSampling == ppc # "dead"

(***************************************************************************)
(* Properties of the persistence flusher                                   *)
(***************************************************************************)
\* A pass of the flusher's loop has been made.
FTicked == ftick # NoFTick

\* C17 as stated: a tick saves exactly when it finds the counter at the save
\* interval or above (not at interval - 1, but one tick later); a tick that
\* saves leaves the counter at 0, without incrementing it, and a tick that
\* does not save leaves it one higher.
C17_SaveResetsToZero ==
    FTicked =>
        /\ ftick.saved <=> ftick.found >= SaveInterval
        /\ cycle = IF ftick.saved THEN 0 ELSE ftick.found + 1

\* C17, amended: the same, but a tick that saves resets the counter and then
\* increments it like any other tick: it leaves the counter at 1.
C17_SaveRestartsAtOne ==
    FTicked =>
        /\ ftick.saved <=> ftick.found >= SaveInterval
        /\ cycle = IF ftick.saved THEN 1 ELSE ftick.found + 1

\* The first save: the tick that found the counter at 600 (the tick before
\* had found 599 and not saved) saved and left it at 1.
C17_Witness ==
    /\ fpc = "run"
    /\ saves = 1
    /\ ftick = [found |-> SaveInterval, saved |-> TRUE]
    /\ cycle = 1

(***************************************************************************)
(* The listener across session changes                                     *)
(***************************************************************************)
\* C18: when a session other than the first one processes its welcome, with
\* a control socket configured, the session goes on and the listener of its
\* bot is a live thread that has not been told to stop and whose connection
\* is the one of that session.
C18_ListenerFollowsSession ==
    [][(socketCfg /\ starts > 1 /\ ~welcomed /\ welcomed') =>
          /\ supPc' = "session"
          /\ IsAlive(hermes)'
          /\ lrunning'[hermes']
          /\ lattached'[hermes']]_vars

(***************************************************************************)
(* Properties of the start-up                                              *)
(***************************************************************************)
\* Start-up ended by exiting non-zero with a message; no bot was started.
Refused ==
    /\ cpc = "exit"
    /\ exit.status = "nonzero"
    /\ exit.msg # "none"
    /\ supPc = "off"
    /\ starts = 0

\* C20: with --stop or --kill and no running instance (no pid file, an
\* unreadable one, or one naming a dead process), and with an instance
\* running and neither switch, start-up ends non-zero with a message and no
\* bot session is ever started.
C20_NoInstanceNoStart ==
    LET switch == args.stop \/ args.kill
    IN ((switch /\ found # "running") \/ (~switch /\ found = "running")) =>
          /\ starts = 0
          /\ cpc # "args" => Refused

\* C21: started with --no-eternal, the supervisor starts the session once:
\* when it has passed the head of its loop one session has been started, and
\* never more than one is.
C21_NoEternalStartsOnce ==
    (args.no_eternal /\ cpc = "up") =>
        /\ starts <= 1
        /\ supPc # "loop" => starts = 1

=============================================================================
